---- MODULE Spec2Model ----
(***************************************************************************)
(* Model of changkun/todo (src/todo.go): a one-shot command that reads a   *)
(* TODO from the terminal, optionally appends a streamed GPT suggestion,   *)
(* and mails it, retrying the send until it succeeds.                      *)
(*                                                                         *)
(* Processes: the main goroutine (init, main, newTODO, the controller loop *)
(* of waitBody), the reader goroutine started by waitBody, and the         *)
(* environment (the terminal, the interrupt signal, the completion service *)
(* and the mail service).  Signals are modelled from the registration of   *)
(* the handler (signal.Notify) onward.                                     *)
(***************************************************************************)
EXTENDS Integers, Sequences, FiniteSets, TLC

(* ------------------------------ bounds --------------------------------- *)
MaxLines == 3        \* lines typed on standard input
MaxInterrupts == 2   \* interrupt signals raised by the user
MaxFailures == 2     \* failing send attempts
MaxFragments == 2    \* fragments received on the completion stream

(* ------------------------------ inputs --------------------------------- *)
\* command lines (os.Args[1:]); a word is the sequence of its characters
ArgvChoices ==
    { <<>>,
      << <<>> >>,
      << <<>>, <<>> >>,
      << <<"c", "a", "l", "l">>, <<"m", "o", "m">> >>,
      << <<"n", "e", "e", "d">>, <<"t", "o">>, <<"b", "u", "y">>,
         <<"m", "i", "l", "k">> >>,
      << <<"-", "-">>, <<"-", "x">> >>,
      << <<"-", "x">>, <<"b", "u", "y">> >>,
      << <<"-", "1">>, <<"d", "a", "y">> >>,
      << <<"-", "-", "-">> >>,
      << <<"-", "h">> >>,
      << <<"-", "-", "h", "e", "l", "p", "=", "1">> >> }

\* the tokens bufio.Scanner yields for the typed lines
LineChoices == {"", "this evening", "x"}

\* Delta.Content of a stream response
FragmentChoices == {"a", "b"}

RECURSIVE SeqsUpTo(_, _)
SeqsUpTo(S, n) ==
    IF n = 0 THEN { <<>> }
    ELSE LET shorter == SeqsUpTo(S, n - 1)
         IN  shorter \cup { Append(s, e) : s \in shorter, e \in S }

(* --------------------------- pure functions ---------------------------- *)
\* the string of a word
RECURSIVE Text(_)
Text(w) == IF Len(w) = 0 THEN "" ELSE w[1] \o Text(Tail(w))

\* the strings of a sequence of words
Texts(ws) == [ i \in DOMAIN ws |-> Text(ws[i]) ]

\* the flag name of a word behind its dashes: the part before the first "="
\* that is not its first character
RECURSIVE FlagName(_, _)
FlagName(name, i) ==
    IF i > Len(name) THEN name
    ELSE IF name[i] = "=" THEN SubSeq(name, 1, i - 1)
    ELSE FlagName(name, i + 1)

\* flag.Parse() on a flag set without flags (FlagSet.parseOne): the first
\* word decides.  status "ok": args is flag.Args(); "help": usage and
\* os.Exit(0); "error": usage and os.Exit(2)
FlagParse(argv) ==
    IF Len(argv) = 0 THEN [status |-> "ok", args |-> argv]
    ELSE LET s == argv[1]
         IN  IF Len(s) < 2 \/ s[1] # "-" THEN [status |-> "ok", args |-> argv]
             ELSE IF s[2] = "-" /\ Len(s) = 2 THEN
                 [status |-> "ok", args |-> Tail(argv)]
             ELSE LET minuses == IF s[2] = "-" THEN 2 ELSE 1
                      name == SubSeq(s, minuses + 1, Len(s))
                  IN  IF Len(name) = 0 \/ name[1] = "-" \/ name[1] = "="
                      THEN [status |-> "error", args |-> <<>>]
                      ELSE IF Text(FlagName(name, 2)) \in {"help", "h"}
                      THEN [status |-> "help", args |-> <<>>]
                      ELSE [status |-> "error", args |-> <<>>]

\* strings.Join(elems, sep)
RECURSIVE Join(_, _)
Join(elems, sep) ==
    IF Len(elems) = 0 THEN ""
    ELSE IF Len(elems) = 1 THEN elems[1]
    ELSE elems[1] \o sep \o Join(Tail(elems), sep)

\* mutant: the tag is missing
Prefixed_NoTag(subject) == subject

\* the argument of newTODO: "todo: " + subject
Prefixed(subject) == "todo: " \o subject

\* mutant: the subject is kept in front of the collected lines
AssembleText_WithSubject(subject, lines) ==
    IF Len(lines) # 0 THEN subject \o "\n" \o Join(lines, "\n") ELSE subject

\* mutant: the fallback to the subject is missing
AssembleText_LinesOnly(subject, lines) == Join(lines, "\n")

\* text := a.subject; if len(a.text) != 0 { text = strings.Join(a.text, "\n") }
AssembleText(subject, lines) ==
    IF Len(lines) # 0 THEN Join(lines, "\n") ELSE subject

\* text += "\n\nSuggestion by GPT4:\n" + suggestion + "\n"
Augment(t, suggestion) ==
    t \o "\n\nSuggestion by GPT4:\n" \o suggestion \o "\n"

Inbox == "inbox"     \* conf.Inbox
Nil == <<>>          \* the nil *todo; a non-nil *todo is << item >>
SigCap == 1          \* make(chan os.Signal, 1)
LineCap == 1         \* make(chan string, 1)

(* ------------------------------- state --------------------------------- *)
VARIABLES
    pc,            \* position of the main goroutine
    exitCode,      \* -1 while the process runs, else the exit code
    confValid,     \* yaml.Unmarshal(confRaw) succeeds
    apiKey,        \* os.Getenv(conf.APIKey) is non-empty
    openaiToken,   \* os.Getenv("OPENAI_API_KEY") is non-empty
    client,        \* client != nil
    argv,          \* os.Args[1:]
    args,          \* flag.Args(), once flag.Parse() has run
    stdin,         \* lines typed and not yet scanned
    stdinEOF,      \* end-of-input follows the typed lines
    typed,         \* history: every line typed, scanned or not
    intrSeen,      \* history: an interrupt was raised during collection
    afterIntr,     \* history: lines the controller took after that interrupt
    notified,      \* signal.Notify(sigCh, os.Interrupt) has run
    interrupts,    \* interrupt signals raised so far
    sigCh,         \* chan os.Signal, capacity 1
    line,          \* chan string, capacity 1
    rpc,           \* position of the reader goroutine
    rl,            \* the reader's local l
    subject,       \* subject of the item waitBody works on
    atext,         \* text of the item waitBody works on
    a,             \* main's a: Nil, or the item newTODO returned
    completed,     \* result of waitBody: "pending", "true", "false"
    assembled,     \* text as assembled at lines 97-100
    text,          \* main's local text
    suggestion,    \* main's local suggestion
    fragments,     \* history: the fragments received so far, in order
    enrichErr,     \* "none", "open" (117), "recv" (128), "nochoices" (133)
    requests,      \* completion requests issued
    failures,      \* failed send attempts
    sendLog,       \* events of the retry loop, in order
    sent,          \* arguments of every sendEmail call, in order
    out            \* notices printed

vars == << pc, exitCode, confValid, apiKey, openaiToken, client, argv, args,
           stdin,
           stdinEOF, typed, intrSeen, afterIntr, notified, interrupts, sigCh, line, rpc, rl, subject,
           atext, a, completed, assembled, text, suggestion, fragments,
           enrichErr, requests, failures, sendLog, sent, out >>

envVars == << confValid, apiKey, openaiToken, argv, stdinEOF, typed >>
histVars == << intrSeen, afterIntr >>
readerVars == << stdin, line, rpc, rl >>
itemVars == << subject, atext, completed >>
enrichVars == << assembled, text, suggestion, fragments, enrichErr, requests >>
sendVars == << failures, sendLog, sent >>

Running == exitCode = -1

Init ==
    /\ pc = "Init"
    /\ exitCode = -1
    /\ confValid \in BOOLEAN
    /\ apiKey \in BOOLEAN
    /\ openaiToken \in BOOLEAN
    /\ client = FALSE
    /\ argv \in ArgvChoices
    /\ args = <<>>
    /\ stdin \in SeqsUpTo(LineChoices, MaxLines)
    /\ stdinEOF \in BOOLEAN
    /\ typed = stdin
    /\ intrSeen = FALSE
    /\ afterIntr = 0
    /\ notified = FALSE
    /\ interrupts = 0
    /\ sigCh = <<>>
    /\ line = <<>>
    /\ rpc = "idle"
    /\ rl = ""
    /\ subject = ""
    /\ atext = <<>>
    /\ a = Nil
    /\ completed = "pending"
    /\ assembled = ""
    /\ text = ""
    /\ suggestion = ""
    /\ fragments = <<>>
    /\ enrichErr = "none"
    /\ requests = 0
    /\ failures = 0
    /\ sendLog = <<>>
    /\ sent = <<>>
    /\ out = {}

(* ------------------------- fatal(), init() ----------------------------- *)
\* mutant: os.Exit(0)
Fatal_ExitZero(msg) ==
    /\ pc' = "Fatal"
    /\ exitCode' = 0
    /\ out' = out \cup {msg}

\* fatal: the message goes to stderr, os.Exit(1)
Fatal(msg) ==
    /\ pc' = "Fatal"
    /\ exitCode' = 1
    /\ out' = out \cup {msg}

\* init(): parse the configuration, resolve the mailgun key, build the clients
InitFn ==
    /\ Running
    /\ pc = "Init"
    /\ IF ~confValid THEN
           /\ Fatal("cannot parse config")
           /\ UNCHANGED client
       ELSE IF ~apiKey THEN
           /\ Fatal("missing mailgun API key")
           /\ UNCHANGED client
       ELSE
           /\ client' = openaiToken
           /\ pc' = "Main"
           /\ UNCHANGED << exitCode, out >>
    /\ UNCHANGED << envVars, args, histVars, readerVars, itemVars, a, enrichVars, sendVars,
                    notified, interrupts, sigCh >>

\* flag.Parse() fails: the usage function of lines 66-77 prints to stderr and
\* the flag set (ExitOnError) exits, with 0 for -h/-help and 2 otherwise
UsageExit(status) ==
    /\ pc' = "Usage"
    /\ exitCode' = IF status = "help" THEN 0 ELSE 2
    /\ out' = out \cup {"Usage: todo [ITEM]"}

\* main, lines 66-88, and the start of waitBody, lines 181-202: the flags,
\* the subject check, the item, the signal handler and the reader goroutine
MainStart ==
    /\ Running
    /\ pc = "Main"
    /\ LET parsed == FlagParse(argv)
           joined == Join(Texts(parsed.args), " ")
       IN  IF parsed.status # "ok" THEN
               /\ UsageExit(parsed.status)
               /\ UNCHANGED << args, subject, notified, rpc >>
           ELSE IF joined = "" THEN
               /\ args' = Texts(parsed.args)
               /\ Fatal("missing todo subject")
               /\ UNCHANGED << subject, notified, rpc >>
           ELSE
               /\ args' = Texts(parsed.args)
               /\ subject' = Prefixed(joined)
               /\ notified' = TRUE
               /\ rpc' = "scan"
               /\ pc' = "Collecting"
               /\ UNCHANGED << exitCode, out >>
    /\ UNCHANGED << envVars, histVars, client, stdin, line, rl, atext, a, completed,
                    enrichVars, sendVars, interrupts, sigCh >>

(* ----------------------- waitBody: the reader -------------------------- *)
\* mutant: at end-of-input the reader returns without posting on sigCh
ReaderScan_SilentEOF ==
    /\ Running
    /\ rpc = "scan"
    /\ \/ /\ stdin # <<>>
          /\ rl' = Head(stdin)
          /\ stdin' = Tail(stdin)
          /\ rpc' = "send_line"
       \/ /\ stdin = <<>>
          /\ stdinEOF
          /\ rpc' = "exit"
          /\ UNCHANGED << stdin, rl >>
    /\ UNCHANGED << pc, exitCode, envVars, args, histVars, client, notified,
                    interrupts, sigCh, line, itemVars, a, enrichVars,
                    sendVars, out >>

\* s.Scan() and s.Text(), lines 191-195: the next line, or end-of-input;
\* with nothing typed and no end-of-input the read blocks
ReaderScan ==
    /\ Running
    /\ rpc = "scan"
    /\ \/ /\ stdin # <<>>
          /\ rl' = Head(stdin)
          /\ stdin' = Tail(stdin)
          /\ rpc' = "send_line"
       \/ /\ stdin = <<>>
          /\ stdinEOF
          /\ rpc' = "send_sig"
          /\ UNCHANGED << stdin, rl >>
    /\ UNCHANGED << pc, exitCode, envVars, args, histVars, client, notified, interrupts,
                    sigCh, line, itemVars, a, enrichVars, sendVars, out >>

\* mutant: the send does not wait for a free slot
ReaderSendLine_NoBlock ==
    /\ Running
    /\ rpc = "send_line"
    /\ Len(line) < LineCap + 1
    /\ line' = Append(line, rl)
    /\ rpc' = IF Len(rl) = 0 THEN "exit" ELSE "scan"
    /\ UNCHANGED << pc, exitCode, envVars, args, histVars, client, notified,
                    interrupts, sigCh, stdin, rl, itemVars, a, enrichVars,
                    sendVars, out >>

\* line <- "" / line <- l, lines 196-200: blocks while the channel is full
ReaderSendLine ==
    /\ Running
    /\ rpc = "send_line"
    /\ Len(line) < LineCap
    /\ line' = Append(line, rl)
    /\ rpc' = IF Len(rl) = 0 THEN "exit" ELSE "scan"
    /\ UNCHANGED << pc, exitCode, envVars, args, histVars, client, notified, interrupts,
                    sigCh, stdin, rl, itemVars, a, enrichVars, sendVars, out >>

\* mutant: end-of-input is handed over as a blank line
ReaderSendSig_AsBlank ==
    /\ Running
    /\ rpc = "send_sig"
    /\ Len(line) < LineCap
    /\ line' = Append(line, "")
    /\ rpc' = "exit"
    /\ UNCHANGED << pc, exitCode, envVars, args, histVars, client, notified,
                    interrupts, sigCh, stdin, rl, itemVars, a, enrichVars,
                    sendVars, out >>

\* sigCh <- os.Interrupt, lines 191-193: blocks while the channel is full
ReaderSendSig ==
    /\ Running
    /\ rpc = "send_sig"
    /\ Len(sigCh) < SigCap
    /\ sigCh' = Append(sigCh, "interrupt")
    /\ rpc' = "exit"
    /\ UNCHANGED << pc, exitCode, envVars, args, histVars, client, notified, interrupts,
                    stdin, line, rl, itemVars, a, enrichVars, sendVars, out >>

\* mutant: waitBody ends with signal.Stop(sigCh), so that an interrupt after
\* collection gets the default disposition and kills the process
Interrupt_AfterStop ==
    /\ Running
    /\ notified
    /\ interrupts < MaxInterrupts
    /\ interrupts' = interrupts + 1
    /\ IF pc = "Collecting" THEN
           /\ sigCh' = IF Len(sigCh) < SigCap
                        THEN Append(sigCh, "interrupt") ELSE sigCh
           /\ intrSeen' = TRUE
           /\ UNCHANGED exitCode
       ELSE
           /\ exitCode' = 2
           /\ UNCHANGED << sigCh, intrSeen >>
    /\ UNCHANGED << pc, envVars, args, afterIntr, client, notified, readerVars,
                    itemVars, a, enrichVars, sendVars, out >>

\* The user raises an interrupt.  signal.Notify never blocks on sigCh: the
\* signal is dropped when the channel is full.
Interrupt ==
    /\ Running
    /\ notified
    /\ interrupts < MaxInterrupts
    /\ interrupts' = interrupts + 1
    /\ sigCh' = IF Len(sigCh) < SigCap THEN Append(sigCh, "interrupt")
                 ELSE sigCh
    /\ intrSeen' = (intrSeen \/ pc = "Collecting")
    /\ UNCHANGED << pc, exitCode, envVars, args, afterIntr, client, notified, readerVars,
                    itemVars, a, enrichVars, sendVars, out >>

(* --------------------- waitBody: the controller ------------------------ *)
\* mutant: the line is put in front
AppendLine_Prepend(t, l) == <<l>> \o t

\* mutant: a.text = []string{l}
AppendLine_Replace(t, l) == << l >>

\* a.text = append(a.text, l)
AppendLine(t, l) == Append(t, l)

\* case <-sigCh: return false
CtrlSig ==
    /\ Running
    /\ pc = "Collecting"
    /\ sigCh # <<>>
    /\ sigCh' = Tail(sigCh)
    /\ completed' = "false"
    /\ pc' = "Returned"
    /\ UNCHANGED << exitCode, envVars, args, histVars, client, notified, interrupts,
                    readerVars, subject, atext, a, enrichVars, sendVars, out >>

\* case l := <-line: an empty line returns true, any other is appended
CtrlLine ==
    /\ Running
    /\ pc = "Collecting"
    /\ line # <<>>
    /\ line' = Tail(line)
    /\ IF Len(Head(line)) = 0 THEN
           /\ completed' = "true"
           /\ pc' = "Returned"
           /\ UNCHANGED atext
       ELSE
           /\ atext' = AppendLine(atext, Head(line))
           /\ UNCHANGED << completed, pc >>
    /\ afterIntr' = IF intrSeen THEN afterIntr + 1 ELSE afterIntr
    /\ UNCHANGED << exitCode, envVars, args, intrSeen, client, notified, interrupts,
                    sigCh, stdin, rpc, rl, subject, a, enrichVars, sendVars,
                    out >>

(* ------------------------------- main ---------------------------------- *)
\* mutant: the error of newTODO is ignored and main goes on with the item
Canceled_NoReturn ==
    /\ a' = << [subject |-> subject, text |-> atext] >>
    /\ assembled' = AssembleText(subject, atext)
    /\ text' = AssembleText(subject, atext)
    /\ pc' = IF client THEN "Enriching" ELSE "Sending"
    /\ UNCHANGED << out, exitCode >>

\* newTODO returns nil, errCanceled: main prints the notice and returns
Canceled ==
    /\ a' = Nil
    /\ out' = out \cup {"TODO is canceled"}
    /\ exitCode' = 0
    /\ pc' = "Cancelled"
    /\ UNCHANGED << assembled, text >>

\* mutant: the client != nil test is missing
Collected_AlwaysEnrich ==
    /\ a' = << [subject |-> subject, text |-> atext] >>
    /\ assembled' = AssembleText(subject, atext)
    /\ text' = AssembleText(subject, atext)
    /\ pc' = "Enriching"
    /\ UNCHANGED << out, exitCode >>

\* mutant: the enrichment block is never entered
Collected_SkipEnrich ==
    /\ a' = << [subject |-> subject, text |-> atext] >>
    /\ assembled' = AssembleText(subject, atext)
    /\ text' = AssembleText(subject, atext)
    /\ pc' = "Sending"
    /\ UNCHANGED << out, exitCode >>

\* newTODO returns the item: main assembles the text, lines 97-102
Collected ==
    /\ a' = << [subject |-> subject, text |-> atext] >>
    /\ assembled' = AssembleText(subject, atext)
    /\ text' = AssembleText(subject, atext)
    /\ pc' = IF client THEN "Enriching" ELSE "Sending"
    /\ UNCHANGED << out, exitCode >>

\* newTODO after waitBody, lines 174-177, and main, lines 88-102
NewTODOReturn ==
    /\ Running
    /\ pc = "Returned"
    /\ IF completed = "false" THEN Canceled ELSE Collected
    /\ UNCHANGED << envVars, args, histVars, client, notified, interrupts, sigCh, readerVars,
                    itemVars, suggestion, fragments, enrichErr, requests,
                    sendVars >>

\* client.CreateChatCompletionStream, lines 103-120
OpenStream ==
    /\ Running
    /\ pc = "Enriching"
    /\ requests' = requests + 1
    /\ \E ok \in BOOLEAN :
          IF ok THEN
              /\ suggestion' = ""
              /\ pc' = "Receiving"
              /\ UNCHANGED << enrichErr, out >>
          ELSE
              /\ enrichErr' = "open"
              /\ out' = out \cup {"failed to generate GPT suggestion"}
              /\ pc' = "Sending"
              /\ UNCHANGED suggestion
    /\ UNCHANGED << exitCode, envVars, args, histVars, client, notified, interrupts, sigCh,
                    readerVars, itemVars, a, assembled, text, fragments,
                    sendVars >>

\* mutant: the fragment is put in front of the suggestion
RecvFragment_Prepend ==
    /\ Len(fragments) < MaxFragments
    /\ \E f \in FragmentChoices :
          /\ suggestion' = f \o suggestion
          /\ fragments' = Append(fragments, f)
    /\ UNCHANGED << pc, exitCode, text, enrichErr, out >>

\* stream.Recv() returns a response, lines 123-134
RecvFragment ==
    /\ Len(fragments) < MaxFragments
    /\ \E f \in FragmentChoices :
          /\ suggestion' = suggestion \o f
          /\ fragments' = Append(fragments, f)
    /\ UNCHANGED << pc, exitCode, text, enrichErr, out >>

\* stream.Recv() returns a response without choices: response.Choices[0] at
\* line 133 panics (index out of range); the process ends with status 2
RecvNoChoices ==
    /\ enrichErr' = "nochoices"
    /\ out' = out \cup {"panic: index out of range"}
    /\ exitCode' = 2
    /\ pc' = "Panic"
    /\ UNCHANGED << text, suggestion, fragments >>

\* stream.Recv() returns io.EOF: break, then line 136
RecvEOF ==
    /\ text' = Augment(text, suggestion)
    /\ pc' = "Sending"
    /\ UNCHANGED << exitCode, suggestion, fragments, enrichErr, out >>

\* stream.Recv() returns another error: warning, break, then line 136
RecvError ==
    /\ enrichErr' = "recv"
    /\ out' = out \cup {"failed to receive stream"}
    /\ text' = Augment(text, suggestion)
    /\ pc' = "Sending"
    /\ UNCHANGED << exitCode, suggestion, fragments >>

\* one iteration of the receive loop, lines 122-137
Recv ==
    /\ Running
    /\ pc = "Receiving"
    /\ (RecvFragment \/ RecvNoChoices \/ RecvEOF \/ RecvError)
    /\ UNCHANGED << envVars, args, histVars, client, notified, interrupts, sigCh,
                    readerVars, itemVars, a, assembled, requests, sendVars >>

\* mutant: the break is missing, the loop sends again
SendOK_NoBreak ==
    /\ sendLog' = Append(sendLog, "ok")
    /\ pc' = "Sending"
    /\ UNCHANGED << failures, out, exitCode >>

\* sendEmail returns nil: break, print SENT, main returns
SendOK ==
    /\ sendLog' = Append(sendLog, "ok")
    /\ out' = out \cup {"SENT"}
    /\ exitCode' = 0
    /\ pc' = "Done"
    /\ UNCHANGED failures

\* mutant: the retry follows at once, without the sleep
SendFail_NoBackoff ==
    /\ failures < MaxFailures
    /\ failures' = failures + 1
    /\ sendLog' = Append(sendLog, "fail")
    /\ out' = out \cup {"failed to send email, retry in 3 seconds"}
    /\ pc' = "Sending"
    /\ UNCHANGED exitCode

\* sendEmail returns an error (a timeout included): warning, then the sleep
SendFail ==
    /\ failures < MaxFailures
    /\ failures' = failures + 1
    /\ sendLog' = Append(sendLog, "fail")
    /\ out' = out \cup {"failed to send email, retry in 3 seconds"}
    /\ pc' = "Backoff"
    /\ UNCHANGED exitCode

\* one send attempt, lines 141-149 and sendEmail, lines 152-163
SendEmail ==
    /\ Running
    /\ pc = "Sending"
    /\ sent' = Append(sent, [subject |-> a[1].subject, text |-> text,
                              inbox |-> Inbox])
    /\ (SendOK \/ SendFail)
    /\ UNCHANGED << envVars, args, histVars, client, notified, interrupts, sigCh, readerVars,
                    itemVars, a, enrichVars >>

\* mutant: the loop gives up after a failed attempt
Sleep_GiveUp ==
    /\ Running
    /\ pc = "Backoff"
    /\ pc' = "Fatal"
    /\ exitCode' = 1
    /\ UNCHANGED << envVars, args, histVars, client, notified, interrupts, sigCh,
                    readerVars, itemVars, a, enrichVars, sendVars, out >>

\* time.Sleep(3 * time.Second); continue
Sleep ==
    /\ Running
    /\ pc = "Backoff"
    /\ sendLog' = Append(sendLog, "sleep")
    /\ pc' = "Sending"
    /\ UNCHANGED << exitCode, envVars, args, histVars, client, notified, interrupts, sigCh,
                    readerVars, itemVars, a, enrichVars, failures, sent, out >>

Next ==
    \/ InitFn
    \/ MainStart
    \/ ReaderScan
    \/ ReaderSendLine
    \/ ReaderSendSig
    \/ Interrupt
    \/ CtrlSig
    \/ CtrlLine
    \/ NewTODOReturn
    \/ OpenStream
    \/ Recv
    \/ SendEmail
    \/ Sleep

Spec == Init /\ [][Next]_vars

\* Every goroutine that can run is eventually scheduled: the reader, the
\* controller's select (either case) and the steps of main.  The user's
\* interrupt is not under any fairness.
Fairness ==
    /\ WF_vars(ReaderScan)
    /\ WF_vars(ReaderSendLine)
    /\ WF_vars(ReaderSendSig)
    /\ WF_vars(CtrlSig \/ CtrlLine)
    /\ WF_vars(InitFn)
    /\ WF_vars(MainStart)
    /\ WF_vars(NewTODOReturn)
    /\ WF_vars(OpenStream)
    /\ WF_vars(Recv)
    /\ WF_vars(SendEmail)
    /\ WF_vars(Sleep)

FairSpec == Spec /\ Fairness

TypeOK ==
    /\ pc \in {"Init", "Main", "Collecting", "Returned", "Cancelled",
                "Enriching", "Receiving", "Sending", "Backoff", "Done",
                "Fatal", "Usage", "Panic"}
    /\ exitCode \in {-1, 0, 1, 2}
    /\ Len(sigCh) <= SigCap
    /\ Len(line) <= LineCap
    /\ rpc \in {"idle", "scan", "send_line", "send_sig", "exit"}
    /\ completed \in {"pending", "true", "false"}
    /\ enrichErr \in {"none", "open", "recv", "nochoices"}

(* ------------------------ helpers of the claims ------------------------ *)
CountOf(seq, v) == Cardinality({ i \in DOMAIN seq : seq[i] = v })

HasBlank(seq) == \E i \in DOMAIN seq : seq[i] = ""

FirstBlank(seq) ==
    CHOOSE i \in DOMAIN seq :
        seq[i] = "" /\ \A j \in 1..(i - 1) : seq[j] # ""

LinesBeforeBlank(seq) == SubSeq(seq, 1, FirstBlank(seq) - 1)

IsPrefix(s, t) == Len(s) <= Len(t) /\ \A i \in DOMAIN s : s[i] = t[i]

StartupError ==
    \/ ~confValid
    \/ ~apiKey
    \/ /\ FlagParse(argv).status = "ok"
       /\ Join(Texts(FlagParse(argv).args), " ") = ""

NoEnrichment == ~client \/ enrichErr = "open"

InSendLoop == pc \in {"Sending", "Backoff", "Done"}

(* ------------------------------- claims -------------------------------- *)
\* C1: when collection ends in cancellation (waitBody returns false), no
\* completion request and no send attempt is ever made, main holds no item,
\* and the process ends in Cancelled with exit code 0 and the notice printed.
C1_CancelNoNetwork ==
    /\ completed = "false" =>
          /\ pc \in {"Returned", "Cancelled"}
          /\ requests = 0
          /\ sent = <<>>
          /\ sendLog = <<>>
          /\ a = Nil
          /\ exitCode \in {-1, 0}
          /\ pc = "Cancelled" =>
                exitCode = 0 /\ "TODO is canceled" \in out
    /\ pc = "Cancelled" => completed = "false"

C1_Witness ==
    /\ pc = "Cancelled"
    /\ exitCode = 0
    /\ intrSeen
    /\ Len(atext) >= 1

\* C2 (as claimed): an interrupt raised while the controller is in the
\* collection loop always makes waitBody return false, and the controller
\* takes no further line from the line channel after it.
C2_InterruptAlwaysCancels ==
    intrSeen => (afterIntr = 0 /\ completed # "true")

\* C3: with a blank line typed and no interrupt during collection, waitBody
\* returns true and a.text is exactly the lines typed before the blank line,
\* in order; until then a.text is a prefix of them.
C3_LinesInOrder ==
    (HasBlank(typed) /\ ~intrSeen) =>
        /\ IsPrefix(atext, LinesBeforeBlank(typed))
        /\ completed # "false"
        /\ completed = "true" => atext = LinesBeforeBlank(typed)

C3_Witness ==
    /\ completed = "true"
    /\ ~intrSeen
    /\ Len(atext) = 2
    /\ atext[1] # atext[2]

\* C4: with N failures followed by a success there are exactly N+1 send
\* attempts, a sleep follows every failed attempt and only a failed attempt,
\* and the loop ends right after the first success.
C4_RetryLoop ==
    /\ \A i \in DOMAIN sendLog :
          /\ sendLog[i] = "sleep" => (i > 1 /\ sendLog[i - 1] = "fail")
          /\ (sendLog[i] = "fail" /\ i < Len(sendLog)) =>
                sendLog[i + 1] = "sleep"
          /\ sendLog[i] = "ok" => i = Len(sendLog)
    /\ CountOf(sendLog, "fail") = failures
    /\ Len(sent) = CountOf(sendLog, "fail") + CountOf(sendLog, "ok")
    /\ pc = "Done" =>
          /\ sendLog[Len(sendLog)] = "ok"
          /\ Len(sent) = failures + 1
          /\ CountOf(sendLog, "sleep") = failures

C4_Witness ==
    /\ pc = "Done"
    /\ failures = 2
    /\ Len(sent) = 3
    /\ sendLog = << "fail", "sleep", "fail", "sleep", "ok" >>

\* C5: at most one send attempt succeeds; a run that reaches Done has exactly
\* one, it is the last attempt and nothing is sent after it; a cancelled or
\* fatally aborted run has made no attempt.
C5_AtMostOneEmail ==
    /\ CountOf(sendLog, "ok") <= 1
    /\ CountOf(sendLog, "ok") = 1 <=> pc = "Done"
    /\ pc = "Done" =>
          /\ sendLog[Len(sendLog)] = "ok"
          /\ exitCode = 0
          /\ "SENT" \in out
    /\ pc \in {"Cancelled", "Fatal", "Usage", "Panic"} =>
          (sent = <<>> /\ sendLog = <<>>)

C5_Witness ==
    /\ pc = "Done"
    /\ CountOf(sendLog, "ok") = 1
    /\ Len(sent) >= 2

\* C6: a startup error (configuration, mailgun key, empty subject) ends the
\* process with exit code 1 before the collector is started and before any
\* completion request or send attempt.
C6_FatalBeforeIO ==
    /\ pc = "Fatal" =>
          /\ StartupError
          /\ exitCode = 1
    /\ StartupError =>
          /\ pc \in {"Init", "Main", "Fatal"}
          /\ ~notified
          /\ rpc = "idle"
          /\ completed = "pending"
          /\ requests = 0
          /\ sent = <<>>

C6_Witness ==
    /\ pc = "Fatal"
    /\ confValid
    /\ apiKey
    /\ argv = << <<>> >>
    /\ args = << "" >>

\* C7: without OPENAI_API_KEY there is no client, no completion request is
\* issued and every send attempt carries the text as assembled after
\* collection.
C7_NoClientNoEnrichment ==
    ~openaiToken =>
        /\ ~client
        /\ requests = 0
        /\ pc \notin {"Enriching", "Receiving"}
        /\ InSendLoop => text = assembled
        /\ \A i \in DOMAIN sent : sent[i].text = assembled

C7_Witness ==
    /\ ~openaiToken
    /\ pc = "Done"
    /\ Len(atext) >= 1
    /\ sent[1].text = assembled

\* C8 (as claimed): after any failure of the completion service, at opening
\* or while receiving, the text sent is the text assembled after collection,
\* and the run goes on to Sending and exit code 0.
C8_FailureKeepsText ==
    enrichErr # "none" =>
        /\ InSendLoop
        /\ text = assembled
        /\ \A i \in DOMAIN sent : sent[i].text = assembled
        /\ exitCode \in {-1, 0}

\* C9 (as claimed): with at least one line and no enrichment the body is the
\* joined arguments followed by the collected lines, newline-separated.
C9_BodyCombinesSubject ==
    (NoEnrichment /\ atext # <<>>) =>
        \A i \in DOMAIN sent :
            sent[i].text = Join(args, " ") \o "\n" \o Join(atext, "\n")

\* C9 (amended): with at least one line and no enrichment the body is the
\* collected lines alone, in order and newline-separated; the argument text
\* travels only in the subject, behind the tag "todo: ".
C9_BodyIsLinesAlone ==
    (NoEnrichment /\ atext # <<>>) =>
        \A i \in DOMAIN sent :
            /\ sent[i].text = Join(atext, "\n")
            /\ sent[i].subject = "todo: " \o Join(args, " ")
            /\ (args = << "call", "mom" >> /\ atext = << "this evening" >>) =>
                  (sent[i].text = "this evening"
                     /\ sent[i].subject = "todo: call mom")

C9_Witness ==
    /\ NoEnrichment
    /\ args = << "call", "mom" >>
    /\ atext = << "this evening" >>
    /\ Len(sent) = 3
    /\ sent[3].text = "this evening"
    /\ pc = "Done"

\* C10: with zero lines collected and no client, subject and body of every
\* send attempt are both the prefixed subject; when the first attempt
\* succeeds there is a single attempt and the exit code is 0.
C10_SubjectOnlyBody ==
    (~openaiToken /\ completed = "true" /\ atext = <<>>) =>
        /\ \A i \in DOMAIN sent :
              /\ sent[i].text = "todo: " \o Join(args, " ")
              /\ sent[i].subject = "todo: " \o Join(args, " ")
              /\ args = << "need", "to", "buy", "milk" >> =>
                    sent[i].text = "todo: need to buy milk"
        /\ (pc = "Done" /\ failures = 0) =>
              /\ Len(sent) = 1
              /\ exitCode = 0
              /\ "SENT" \in out

C10_Witness ==
    /\ ~openaiToken
    /\ args = << "need", "to", "buy", "milk" >>
    /\ atext = <<>>
    /\ pc = "Done"
    /\ failures = 0
    /\ sent = << [subject |-> "todo: need to buy milk",
                  text |-> "todo: need to buy milk", inbox |-> Inbox] >>

\* C11: from the creation of the item on, its subject is "todo: " followed
\* by the space-joined arguments and stays so; every send attempt, retries
\* included, carries that subject, the same body and the same recipient.
C11_SubjectFixed ==
    /\ pc \notin {"Init", "Main", "Fatal", "Usage"} =>
          subject = "todo: " \o Join(args, " ")
    /\ pc \in {"Enriching", "Receiving", "Sending", "Backoff", "Done"} =>
          a[1].subject = "todo: " \o Join(args, " ")
    /\ \A i \in DOMAIN sent :
          /\ sent[i].subject = "todo: " \o Join(args, " ")
          /\ sent[i].inbox = Inbox
          /\ sent[i] = sent[1]

C11_Witness ==
    /\ args = << "call", "mom" >>
    /\ Len(sent) = 3
    /\ sent[3].subject = "todo: call mom"
    /\ sent[1] = sent[3]

\* the state of the orchestrator (spec 4.4) the main goroutine is in; a
\* fatal abort leaves the machine from Init
Phase ==
    CASE pc \in {"Init", "Main"} -> "Init"
      [] pc \in {"Fatal", "Usage", "Panic"} -> "Aborted"
      [] pc = "Collecting" -> "Collecting"
      [] pc = "Returned" ->
            IF completed = "false" THEN "Cancelled" ELSE "Collected"
      [] pc = "Cancelled" -> "Cancelled"
      [] pc \in {"Enriching", "Receiving"} -> "Enriching"
      [] pc \in {"Sending", "Backoff"} -> "Sending"
      [] pc = "Done" -> "Done"

\* C12: the orchestrator moves only along Init -> Collecting -> (Cancelled |
\* Collected) -> Enriching -> Sending -> Done (or aborts from Init); no
\* state is re-entered, Cancelled is terminal, Collected is left for
\* Enriching exactly when a client is configured and for Sending otherwise,
\* and Sending is entered only after waitBody has returned true.
C12_StateOrder ==
    [][ /\ Phase' # Phase =>
              << Phase, Phase' >> \in
                  { << "Init", "Aborted" >>, << "Init", "Collecting" >>,
                    << "Collecting", "Cancelled" >>,
                    << "Collecting", "Collected" >>,
                    << "Collected", "Enriching" >>,
                    << "Collected", "Sending" >>,
                    << "Enriching", "Sending" >>,
                    << "Enriching", "Aborted" >>,
                    << "Sending", "Done" >> }
        /\ (Phase = "Collected" /\ Phase' # Phase) =>
              Phase' = IF client THEN "Enriching" ELSE "Sending"
        /\ Phase' = "Sending" => completed' = "true"
        /\ Phase' = "Collected" => completed' = "true"
      ]_vars

C12_Witness ==
    /\ pc = "Done"
    /\ client
    /\ requests = 1
    /\ completed = "true"

\* C13: the Sending state is left only by a successful attempt, to Done with
\* exit code 0; until then the process keeps running.  Under fair scheduling
\* the loop goes on after every failed attempt (sleep, then one more
\* attempt), so that a run whose mail service stops failing reaches Done.
C13_SendUntilSuccess ==
    /\ [][ Phase = "Sending" =>
              \/ Phase' = "Sending" /\ exitCode' = -1
              \/ /\ pc' = "Done"
                 /\ exitCode' = 0
                 /\ sendLog'[Len(sendLog')] = "ok" ]_vars
    /\ (Phase = "Sending") ~> (pc = "Done")

C13_Witness ==
    /\ pc = "Done"
    /\ failures = MaxFailures
    /\ Len(sent) = MaxFailures + 1
    /\ exitCode = 0

\* lines the reader has scanned and the controller has not yet taken
Scanned == Len(typed) - Len(stdin)
Consumed == Len(atext) + (IF completed = "true" THEN 1 ELSE 0)

\* C14 (as claimed): while the collector runs, the reader never holds a line
\* it has read while an earlier line is still unconsumed in the channel.
C14_Rendezvous ==
    pc = "Collecting" => ~(rpc = "send_line" /\ line # <<>>)

\* C14 (amended): the line channel is buffered with capacity one: the reader
\* may read one line ahead while the previous line waits in the channel, but
\* it cannot hand that line over before the controller has taken the
\* previous one; at most one line is in the channel and at most two lines
\* are read and unconsumed.
C14_OneLineAhead ==
    /\ Len(line) <= 1
    /\ Scanned - Consumed = Len(line) + (IF rpc = "send_line" THEN 1 ELSE 0)
    /\ Scanned - Consumed <= 2

C14_Witness ==
    /\ pc = "Collecting"
    /\ rpc = "send_line"
    /\ Len(line) = 1
    /\ Scanned - Consumed = 2

\* C15: when the input holds no blank line, waitBody never returns true:
\* with end-of-input after K >= 0 lines every return is false, also when the
\* last line is still in the line channel as the controller takes the signal.
C15_EOFCancels ==
    ~HasBlank(typed) =>
        /\ completed # "true"
        /\ pc \in {"Init", "Main", "Fatal", "Usage", "Collecting", "Returned",
                   "Cancelled"}
        /\ sent = <<>>

C15_Witness ==
    /\ completed = "false"
    /\ stdinEOF
    /\ interrupts = 0
    /\ rpc = "exit"
    /\ Len(typed) >= 2
    /\ line # <<>>
    /\ Len(atext) = Len(typed) - 1

\* C16: the suggestion is the concatenation of the fragments received, in
\* the order received; the augmented text is complete before the first send
\* attempt and every attempt carries it; no attempt is made while the
\* completion request is open or its stream is being received.
C16_StreamThenSend ==
    /\ suggestion = Join(fragments, "")
    /\ fragments = << "a", "b" >> => suggestion = "ab"
    /\ requests <= 1
    /\ pc \in {"Enriching", "Receiving"} => (sent = <<>> /\ sendLog = <<>>)
    /\ (InSendLoop /\ client /\ enrichErr # "open") =>
          text = Augment(assembled, Join(fragments, ""))
    /\ \A i \in DOMAIN sent : sent[i].text = text

C16_Witness ==
    /\ pc = "Done"
    /\ enrichErr = "none"
    /\ fragments = << "a", "b" >>
    /\ Len(sent) = 2
    /\ sent[1].text = assembled \o "\n\nSuggestion by GPT4:\nab\n"

\* C17: a.text changes only by the controller appending, at the end, the
\* non-empty line it takes from the line channel while waitBody has not
\* returned; no step of the reader changes it, and after the return it is
\* never changed, whatever the abandoned reader does.
C17_AppendOnly ==
    [][ /\ atext' # atext =>
              /\ pc = "Collecting"
              /\ completed = "pending"
              /\ line # <<>>
              /\ Len(Head(line)) # 0
              /\ atext' = Append(atext, Head(line))
              /\ line' = Tail(line)
              /\ rpc' = rpc
              /\ stdin' = stdin
        /\ \A i \in DOMAIN atext' : atext'[i] # ""
        /\ completed # "pending" => atext' = atext
      ]_vars

C17_Witness ==
    /\ completed = "false"
    /\ pc = "Returned"
    /\ Len(atext) = 1
    /\ rpc = "send_line"
    /\ line # <<>>

\* C18: the handler stays installed after waitBody: an interrupt raised once
\* collection has returned is put into the free slot of sigCh or dropped,
\* and changes neither the position of main, nor the exit code, nor the
\* text and the record of the send attempts.
C18_LateInterruptAbsorbed ==
    [][ (interrupts' # interrupts
           /\ Phase \in {"Collected", "Enriching", "Sending"}) =>
              /\ notified
              /\ pc' = pc
              /\ exitCode' = exitCode
              /\ exitCode' = -1
              /\ text' = text
              /\ sent' = sent
              /\ sendLog' = sendLog
              /\ Len(sigCh') <= 1
              /\ sigCh' = IF sigCh = <<>> THEN << "interrupt" >> ELSE sigCh
      ]_vars

C18_Witness ==
    /\ pc = "Done"
    /\ ~intrSeen
    /\ interrupts = 2
    /\ sigCh = << "interrupt" >>
    /\ failures >= 1

\* C19: under fair scheduling of the reader and of the controller, once the
\* input holds a blank line or ends, or a signal is in sigCh, the controller
\* leaves the collection loop; the reader may stay blocked afterwards.
C19_ControllerReturns ==
    (pc = "Collecting" /\ (HasBlank(typed) \/ stdinEOF \/ sigCh # <<>>))
        ~> (pc # "Collecting")

C19_Witness ==
    /\ completed = "false"
    /\ pc = "Returned"
    /\ rpc = "send_sig"
    /\ Len(sigCh) = 1
    /\ interrupts = 2

====
